---- MODULE Spec2Model ----
(***************************************************************************)
(* A model of Rfits (src/src/Rfits.cpp), the R binding of CFITSIO.         *)
(*                                                                         *)
(* Every exported Cfits_* function opens one FITS file, moves to an HDU,   *)
(* makes a few library calls and closes the file.  The state of the model  *)
(* is the file as the library sees it, the record of the operation that    *)
(* ran last (its arguments, the library calls it made with the status of   *)
(* each, how it ended, what it returned) and what became of the handle it  *)
(* opened.  One action models one exported function; Cfits_read_colname,   *)
(* whose loop need not end, is modelled one library call per step.         *)
(*                                                                         *)
(* CFITSIO itself is not part of the repository.  The Lib* operators state *)
(* what the called routines do to a file, restricted to the values of the  *)
(* model's domains; they are the assumptions under which the wrapper code  *)
(* is checked.                                                             *)
(*                                                                         *)
(* Numbers are modelled by their numeric value; doubles and floats are     *)
(* restricted to values that are whole numbers, plus NaN.  Where the code  *)
(* hands the library a buffer whose element width is not the width the     *)
(* datatype code denotes, the buffer is taken apart into bytes and put     *)
(* together again as the library does.                                     *)
(***************************************************************************)
EXTENDS Integers, Sequences, FiniteSets, TLC

VARIABLES
    file,      \* the FITS file under the one path every operation is given
    cur,       \* the operation that ran last
    handle,    \* the fitsfile handle of that operation: none, open, closed
    abi        \* the host: [endian: "little" or "big", long: sizeof(long), 4 or 8]

vars == <<file, cur, handle, abi>>

(***************************************************************************)
(* Bounds of the model.                                                    *)
(***************************************************************************)
MaxAxis == 2        \* largest image axis and largest requested axis
MaxRows == 2        \* most rows written by one Cfits_write_col
MaxCols == 2        \* most columns of a created table
MaxLoop == 3        \* most lookups followed in Cfits_read_colname's loop

(***************************************************************************)
(* cfitsio/fitsio.h: datatype codes, open modes, HDU types, status codes.  *)
(***************************************************************************)
TBYTE == 11
TLOGICAL == 14
TSTRING == 16
TUSHORT == 20
TSHORT == 21
TUINT == 30
TINT == 31
TLONG == 41
TINT32BIT == 41
TFLOAT == 42
TLONGLONG == 81
TDOUBLE == 82

READONLY == 0
READWRITE == 1

FILE_NOT_OPENED == 104
FILE_NOT_CREATED == 105
WRITE_ERROR == 106
END_OF_FILE == 107
READ_ERROR == 108
KEY_NO_EXIST == 202
KEY_OUT_BOUNDS == 203
VALUE_UNDEFINED == 204
BAD_BITPIX == 211
BAD_NAXES == 213
BAD_TFIELDS == 216
COL_NOT_FOUND == 219
NO_BITPIX == 222
NOT_IMAGE == 233
NOT_TABLE == 235
COL_NOT_UNIQUE == 237
BAD_TFORM == 261
BAD_HDU_NUM == 301
BAD_COL_NUM == 302
BAD_ROW_NUM == 307
NOT_ASCII_COL == 309
BAD_BTABLE_FORMAT == 312
BAD_C2D == 409
NUM_OVERFLOW == 412
BAD_PIX_NUM == 321

FLEN_STATUS == 31       \* longest status text, with its terminating NUL
ErrMsgSize == 30        \* char err_msg[30] of fits_status_to_exception

(***************************************************************************)
(* Small helpers.                                                          *)
(***************************************************************************)
Min(S) == CHOOSE x \in S : \A y \in S : x <= y


RECURSIVE Repeat(_, _)
Repeat(v, n) == IF n <= 0 THEN <<>> ELSE <<v>> \o Repeat(v, n - 1)

RECURSIVE SeqsUpTo(_, _)
\* every sequence over S of length n
SeqsUpTo(S, n) ==
    IF n = 0 THEN {<<>>}
    ELSE {<<x>> \o s : x \in S, s \in SeqsUpTo(S, n - 1)}

RemoveAt(s, i) == SubSeq(s, 1, i - 1) \o SubSeq(s, i + 1, Len(s))

\* stands for the IEEE not-a-number (NA_real_ and NaN of the host)
NaN == 0 - 1000000

\* stand for the values beyond the 32-bit range, of which the model keeps none
HugePos == 2000000000 + 1

HugeNeg == 0 - HugePos

\* the value clipped to lo..hi, as the library stores a value out of range
Clip(v, lo, hi) == IF v < lo THEN lo ELSE IF v > hi THEN hi ELSE v

(***************************************************************************)
(* Text.  A text (the value field of a header card, a string of the host)  *)
(* is a sequence of characters, so that formatting and parsing are         *)
(* computed.  Keywords and comments are never taken apart and are strings. *)
(***************************************************************************)
DigitChar(d) ==
    CASE d = 0 -> "0" [] d = 1 -> "1" [] d = 2 -> "2" [] d = 3 -> "3"
      [] d = 4 -> "4" [] d = 5 -> "5" [] d = 6 -> "6" [] d = 7 -> "7"
      [] d = 8 -> "8" [] OTHER -> "9"

DigitValue(c) ==
    CASE c = "0" -> 0 [] c = "1" -> 1 [] c = "2" -> 2 [] c = "3" -> 3
      [] c = "4" -> 4 [] c = "5" -> 5 [] c = "6" -> 6 [] c = "7" -> 7
      [] c = "8" -> 8 [] c = "9" -> 9 [] OTHER -> 0 - 1

RECURSIVE NatText(_)
NatText(n) ==
    IF n < 10 THEN <<DigitChar(n)>> ELSE NatText(n \div 10) \o <<DigitChar(n % 10)>>

\* an integer as the library prints it
IntText(n) == IF n < 0 THEN <<"-">> \o NatText(0 - n) ELSE NatText(n)

IsDigits(t) == t # <<>> /\ \A i \in 1..Len(t) : DigitValue(t[i]) >= 0

RECURSIVE NatValue(_)
NatValue(t) ==
    IF t = <<>> THEN 0 ELSE 10 * NatValue(SubSeq(t, 1, Len(t) - 1)) + DigitValue(t[Len(t)])

\* the text is an integer literal
IsIntText(t) == IF t # <<>> /\ t[1] = "-" THEN IsDigits(Tail(t)) ELSE IsDigits(t)

IntValue(t) == IF t[1] = "-" THEN 0 - NatValue(Tail(t)) ELSE NatValue(t)

\* the keyword of the n-th column or axis, n < 10
IndexedKey(root, n) == root \o DigitChar(n)

RECURSIVE RTrim(_)
\* the text without its trailing blanks
RTrim(t) ==
    IF t # <<>> /\ t[Len(t)] = " " THEN RTrim(SubSeq(t, 1, Len(t) - 1)) ELSE t

\* a string value as ffs2c writes it: quoted, padded with blanks to 8 characters
QuoteText(t) == <<"'">> \o t \o Repeat(" ", 8 - Len(t)) \o <<"'">>

IsQuoted(t) == Len(t) >= 2 /\ t[1] = "'" /\ t[Len(t)] = "'"

\* ffc2s: the string of a quoted value, trailing blanks dropped
UnquoteText(t) == RTrim(SubSeq(t, 2, Len(t) - 1))

(***************************************************************************)
(* The FITS file.  A file is a sequence of HDUs; an HDU is a header (a     *)
(* sequence of cards: keyword, value text, comment) and a data unit: the   *)
(* pixels of an image, or the columns of a binary table.                   *)
(***************************************************************************)
Card(k, v, c) == [key |-> k, val |-> v, com |-> c]

NoFile == [exists |-> FALSE, writable |-> TRUE, hdus |-> <<>>]

NoHdu ==
    [type |-> "NONE", header |-> <<>>, bitpix |-> 0, naxes |-> <<>>,
     pixels |-> <<>>, cols |-> <<>>, nrows |-> 0]

HduAt(f, ext) == IF ext \in 1..Len(f.hdus) THEN f.hdus[ext] ELSE NoHdu

\* the keywords a header must start with for the library to accept the HDU
Mandatory(h) ==
    CASE h.type = "IMAGE_HDU" /\ Len(h.naxes) = 2 ->
            <<"BITPIX", "NAXIS", "NAXIS1", "NAXIS2">>
      [] h.type = "IMAGE_HDU" -> <<"BITPIX", "NAXIS">>
      [] h.type = "BINARY_TBL" ->
            <<"BITPIX", "NAXIS", "NAXIS1", "NAXIS2", "PCOUNT", "GCOUNT", "TFIELDS">>
      [] OTHER -> <<>>

HduValid(h) ==
    /\ h.type # "NONE"
    /\ Len(h.header) >= 1 + Len(Mandatory(h))
    /\ h.header[1].key \in {"SIMPLE", "XTENSION"}
    /\ \A i \in 1..Len(Mandatory(h)) : h.header[i + 1].key = Mandatory(h)[i]

NumPixels(h) == IF Len(h.naxes) = 2 THEN h.naxes[1] * h.naxes[2] ELSE 0

\* the header ffphpr writes for a primary array
PrimaryHeader(bitpix, naxes) ==
    <<Card("SIMPLE", <<"T">>, "file does conform to FITS standard"),
      Card("BITPIX", IntText(bitpix), "number of bits per data pixel"),
      Card("NAXIS", IntText(Len(naxes)), "number of data axes")>>
    \o [i \in 1..Len(naxes) |->
           Card(IndexedKey("NAXIS", i), IntText(naxes[i]), "length of data axis")]
    \o <<Card("EXTEND", <<"T">>, "FITS dataset may contain extensions"),
         Card("COMMENT", <<>>, "FITS format, defined in Astronomy and"),
         Card("COMMENT", <<>>, "Astrophysics, volume 376, page 359")>>

ImageHdu(bitpix, n1, n2, pixels) ==
    [type |-> "IMAGE_HDU", header |-> PrimaryHeader(bitpix, <<n1, n2>>),
     bitpix |-> bitpix, naxes |-> <<n1, n2>>, pixels |-> pixels,
     cols |-> <<>>, nrows |-> 0]

\* the dummy primary array ffcrtb puts before the first table of a new file
NullPrimary(bitpix) ==
    [type |-> "IMAGE_HDU", header |-> PrimaryHeader(bitpix, <<>>),
     bitpix |-> bitpix, naxes |-> <<>>, pixels |-> <<>>, cols |-> <<>>, nrows |-> 0]

\* a TFORM is a repeat count and a type letter
TformLetter(tform) == IF tform = <<>> THEN "?" ELSE tform[Len(tform)]

TformRepeat(tform) ==
    IF Len(tform) <= 1 THEN 1 ELSE NatValue(SubSeq(tform, 1, Len(tform) - 1))

TformValid(tform) ==
    /\ tform # <<>>
    /\ TformLetter(tform) \in {"L", "B", "I", "J", "K", "A", "E", "D"}
    /\ Len(tform) = 1 \/ IsDigits(SubSeq(tform, 1, Len(tform) - 1))

\* bytes of one element of a column of the given type letter
LetterWidth(c) ==
    CASE c \in {"L", "B", "A"} -> 1 [] c = "I" -> 2 [] c \in {"J", "E"} -> 4
      [] c \in {"K", "D"} -> 8 [] OTHER -> 0

\* fits_get_coltype: the datatype code of a column
ColTypeCode(tform) ==
    CASE TformLetter(tform) = "L" -> TLOGICAL
      [] TformLetter(tform) = "B" -> TBYTE
      [] TformLetter(tform) = "I" -> TSHORT [] TformLetter(tform) = "J" -> TLONG
      [] TformLetter(tform) = "K" -> TLONGLONG [] TformLetter(tform) = "A" -> TSTRING
      [] TformLetter(tform) = "E" -> TFLOAT [] TformLetter(tform) = "D" -> TDOUBLE
      [] OTHER -> 0

RECURSIVE RowWidth(_)
RowWidth(cols) ==
    IF cols = <<>> THEN 0
    ELSE TformRepeat(Head(cols).tform) * LetterWidth(TformLetter(Head(cols).tform))
         + RowWidth(Tail(cols))

RECURSIVE ColumnCards(_, _)
ColumnCards(cols, i) ==
    IF i > Len(cols) THEN <<>>
    ELSE <<Card(IndexedKey("TTYPE", i), QuoteText(cols[i].name), "label for field"),
           Card(IndexedKey("TFORM", i), QuoteText(cols[i].tform), "data format of field")>>
         \o (IF cols[i].unit = <<>> THEN <<>>
             ELSE <<Card(IndexedKey("TUNIT", i), QuoteText(cols[i].unit),
                         "physical unit of field")>>)
         \o ColumnCards(cols, i + 1)

\* the header ffphbn writes for a binary table
TableHeader(cols, nrows, extname) ==
    <<Card("XTENSION", QuoteText(<<"B", "I", "N", "T", "A", "B", "L", "E">>),
           "binary table extension"),
      Card("BITPIX", IntText(8), "8-bit bytes"),
      Card("NAXIS", IntText(2), "2-dimensional binary table"),
      Card("NAXIS1", IntText(RowWidth(cols)), "width of table in bytes"),
      Card("NAXIS2", IntText(nrows), "number of rows in table"),
      Card("PCOUNT", IntText(0), "size of special data area"),
      Card("GCOUNT", IntText(1), "one data group"),
      Card("TFIELDS", IntText(Len(cols)), "number of fields in each row")>>
    \o ColumnCards(cols, 1)
    \o (IF extname = <<>> THEN <<>>
        ELSE <<Card("EXTNAME", QuoteText(extname), "name of this binary table extension")>>)

TableHdu(cols, nrows, extname) ==
    [type |-> "BINARY_TBL", header |-> TableHeader(cols, nrows, extname),
     bitpix |-> 8, naxes |-> <<>>, pixels |-> <<>>, cols |-> cols, nrows |-> nrows]

Column(name, tform, unit, cells) ==
    [name |-> name, tform |-> tform, unit |-> unit, cells |-> cells]

\* the first card of keyword k in header hd rewritten with value text v
RECURSIVE SetCardValue(_, _, _)
SetCardValue(hd, k, v) ==
    IF hd = <<>> THEN <<>>
    ELSE IF Head(hd).key = k
         THEN <<[Head(hd) EXCEPT !.val = v]>> \o Tail(hd)
         ELSE <<Head(hd)>> \o SetCardValue(Tail(hd), k, v)

(***************************************************************************)
(* fits_status_to_exception and _fits_invoke: a library call that reports  *)
(* a status other than 0 makes the operation throw, so no later call of    *)
(* the operation is made.  A plan is the sequence of library calls an      *)
(* operation makes when none fails, each with the status the library       *)
(* reports for it.                                                         *)
(***************************************************************************)
Call(f, st) == [f |-> f, st |-> st]

\* the status an I/O failure of the call gives
IoError(f) ==
    IF f \in {"write_col", "write_pix", "update_key", "delete_key", "delete_record",
              "delete_hdu", "create_hdu", "create_tbl", "create_img", "close_file"}
    THEN WRITE_ERROR
    ELSE IF f = "create_file" THEN FILE_NOT_CREATED
    ELSE IF f \in {"open_file", "open_image"} THEN FILE_NOT_OPENED
    ELSE READ_ERROR

\* the plan with an I/O failure at call number fail (0: none)
Injected(plan, fail) ==
    [i \in 1..Len(plan) |->
        IF i = fail /\ plan[i].st = 0 THEN Call(plan[i].f, IoError(plan[i].f))
        ELSE plan[i]]

FirstBad(plan) ==
    LET bad == {i \in 1..Len(plan) : plan[i].st # 0}
    IN  IF bad = {} THEN 0 ELSE Min(bad)

\* the calls made: _fits_invoke throws at the first status that is not 0
Invoked(plan) ==
    IF FirstBad(plan) = 0 THEN plan ELSE SubSeq(plan, 1, FirstBad(plan))

\* call number i was made and reported status 0
Passed(plan, i) == i \in 1..Len(plan) /\ (FirstBad(plan) = 0 \/ i < FirstBad(plan))

Thrown(plan) == FirstBad(plan) # 0

\* length of the text fits_get_errstatus gives for a status
StatusTextLen(st) ==
    IF st \in {FILE_NOT_CREATED, END_OF_FILE, BAD_COL_NUM} THEN FLEN_STATUS - 1
    ELSE FLEN_STATUS - 2

\* fits_status_to_exception copies the text and its NUL into err_msg[30]:
\* a text of 30 characters writes one byte past the array
ErrMsgOverflow(st) == StatusTextLen(st) + 1 > ErrMsgSize

\* a failure injected at call number fail changes the run: the call is made
FailApplies(plan, fail) ==
    \/ fail = 0
    \/ fail \in 1..Len(plan) /\ plan[fail].st = 0 /\ (FirstBad(plan) = 0 \/ fail < FirstBad(plan))

\* the run throws with a status whose text overruns err_msg
ThrowOverruns(plan) == Thrown(plan) /\ ErrMsgOverflow(plan[FirstBad(plan)].st)

\* how the operation ends: tail is its end when no call fails
Outcome(plan, tail, ub) ==
    IF Thrown(plan)
    THEN IF ErrMsgOverflow(plan[FirstBad(plan)].st) /\ ub THEN "abort" ELSE "error"
    ELSE tail

\* the handle when the operation ends: it is released by fits_close_file only
HandleAfter(plan, openAt) ==
    IF ~Passed(plan, openAt) THEN "none"
    ELSE IF \E i \in 1..Len(Invoked(plan)) : plan[i].f = "close_file" THEN "closed"
    ELSE "open"

(***************************************************************************)
(* Values of the host language.                                            *)
(***************************************************************************)
RNull == [rtype |-> "NULL", dim |-> <<>>, vals |-> <<>>]

RVector(rtype, vals) == [rtype |-> rtype, dim |-> <<>>, vals |-> vals]

RMatrix(rtype, nrow, ncol, vals) == [rtype |-> rtype, dim |-> <<nrow, ncol>>, vals |-> vals]

(***************************************************************************)
(* CFITSIO: opening a file and moving to an HDU.                           *)
(***************************************************************************)
\* fits_open_file
LibOpenFile(f, mode) ==
    IF ~f.exists THEN FILE_NOT_OPENED
    ELSE IF mode = READWRITE /\ ~f.writable THEN FILE_NOT_OPENED
    ELSE IF Len(f.hdus) = 0 THEN END_OF_FILE
    ELSE IF ~HduValid(f.hdus[1]) THEN NO_BITPIX
    ELSE 0

\* fits_open_image: fits_open_file, then a move to the first image with pixels
LibOpenImage(f, mode) ==
    IF LibOpenFile(f, mode) # 0 THEN LibOpenFile(f, mode)
    ELSE IF \E i \in 1..Len(f.hdus) :
                f.hdus[i].type = "IMAGE_HDU" /\ NumPixels(f.hdus[i]) > 0
         THEN 0
         ELSE NOT_IMAGE

\* fits_movabs_hdu
LibMovabsHdu(f, ext) ==
    IF ext < 1 THEN BAD_HDU_NUM
    ELSE IF ext > Len(f.hdus) THEN END_OF_FILE
    ELSE IF ~HduValid(f.hdus[ext]) THEN NO_BITPIX
    ELSE 0

\* fits_get_num_rows, fits_get_num_cols
LibTableStatus(h) == IF h.type = "BINARY_TBL" THEN 0 ELSE NOT_TABLE

\* the operation record
OpRecord(op, args, plan, outcome, result) ==
    [op |-> op, args |-> args, calls |-> Invoked(plan), outcome |-> outcome,
     result |-> IF outcome = "ok" THEN result ELSE RNull, pc |-> "done",
     loop |-> <<>>]

Idle == cur.pc = "done"

(***************************************************************************)
(* Cfits_read_nrow and Cfits_read_ncol.                                    *)
(***************************************************************************)
ReadNrowPlan(f, ext) ==
    <<Call("open_file", LibOpenFile(f, READONLY)),
      Call("movabs_hdu", LibMovabsHdu(f, ext)),
      Call("get_num_rows", LibTableStatus(HduAt(f, ext))),
      Call("close_file", 0)>>

Cfits_read_nrow(ext, fail, ub) ==
    LET raw == ReadNrowPlan(file, ext)
        plan == Injected(raw, fail)
    IN  /\ Idle
        /\ FailApplies(raw, fail)
        /\ ub => ThrowOverruns(plan)
        /\ cur' = OpRecord("read_nrow", [ext |-> ext], plan, Outcome(plan, "ok", ub),
                           RVector("integer", <<HduAt(file, ext).nrows>>))
        /\ handle' = HandleAfter(plan, 1)
        /\ UNCHANGED <<file, abi>>

ReadNcolPlan(f, ext) ==
    <<Call("open_file", LibOpenFile(f, READONLY)),
      Call("movabs_hdu", LibMovabsHdu(f, ext)),
      Call("get_num_cols", LibTableStatus(HduAt(f, ext))),
      Call("close_file", 0)>>

Cfits_read_ncol(ext, fail, ub) ==
    LET raw == ReadNcolPlan(file, ext)
        plan == Injected(raw, fail)
    IN  /\ Idle
        /\ FailApplies(raw, fail)
        /\ ub => ThrowOverruns(plan)
        /\ cur' = OpRecord("read_ncol", [ext |-> ext], plan, Outcome(plan, "ok", ub),
                           RVector("integer", <<Len(HduAt(file, ext).cols)>>))
        /\ handle' = HandleAfter(plan, 1)
        /\ UNCHANGED <<file, abi>>

(***************************************************************************)
(* CFITSIO: header keywords.                                               *)
(***************************************************************************)
\* position of the first card of keyword k, 0 when there is none
LibFindKey(hd, k) ==
    LET at == {i \in 1..Len(hd) : hd[i].key = k}
    IN  IF at = {} THEN 0 ELSE Min(at)

\* a double as ffd2e prints it with 15 significant digits (whole values only)
DoubleText(x) == IntText(x) \o <<".">>

IsDoubleText(t) ==
    \/ IsIntText(t)
    \/ Len(t) >= 2 /\ t[Len(t)] = "." /\ IsIntText(SubSeq(t, 1, Len(t) - 1))

DoubleValue(t) ==
    IF t[Len(t)] = "." THEN IntValue(SubSeq(t, 1, Len(t) - 1)) ELSE IntValue(t)

\* fits_read_key: the status and the value read for keyword k as datatype
LibReadKey(h, datatype, k) ==
    LET at == LibFindKey(h.header, k)
        v == h.header[at].val
        s == IF IsQuoted(v) THEN UnquoteText(v) ELSE v
    IN  IF at = 0 THEN [st |-> KEY_NO_EXIST, value |-> <<>>]
        ELSE IF v = <<>> THEN [st |-> VALUE_UNDEFINED, value |-> <<>>]
        ELSE IF datatype = TSTRING THEN [st |-> 0, value |-> <<s>>]
        ELSE IF s = <<"T">> THEN [st |-> 0, value |-> <<1>>]
        ELSE IF s = <<"F">> THEN [st |-> 0, value |-> <<0>>]
        ELSE IF IsDoubleText(s) THEN [st |-> 0, value |-> <<DoubleValue(s)>>]
        ELSE [st |-> BAD_C2D, value |-> <<>>]

\* the card fits_update_key writes: the value as text, by datatype
KeyValueText(datatype, value) ==
    CASE datatype = TSTRING -> QuoteText(value)
      [] datatype = TDOUBLE -> DoubleText(value)
      [] OTHER -> IntText(value)

\* fits_update_key: the card of k rewritten in place, or a new card appended
LibUpdateKey(h, datatype, k, value, com) ==
    LET at == LibFindKey(h.header, k)
        card == Card(k, KeyValueText(datatype, value), com)
    IN  IF at = 0 THEN [h EXCEPT !.header = h.header \o <<card>>]
        ELSE [h EXCEPT !.header[at] = card]

\* not the library: the last card of keyword k removed
LibDeleteKeyLast(h, k) ==
    LET at == {i \in 1..Len(h.header) : h.header[i].key = k}
        last == CHOOSE i \in at : \A j \in at : j <= i
    IN  IF at = {} THEN [st |-> KEY_NO_EXIST, hdu |-> h]
        ELSE [st |-> 0, hdu |-> [h EXCEPT !.header = RemoveAt(h.header, last)]]

\* fits_delete_key: the first card of keyword k removed
LibDeleteKey(h, k) ==
    LET at == LibFindKey(h.header, k)
    IN  IF at = 0 THEN [st |-> KEY_NO_EXIST, hdu |-> h]
        ELSE [st |-> 0, hdu |-> [h EXCEPT !.header = RemoveAt(h.header, at)]]

\* fits_delete_record: the card at a position removed, the later ones moved up
LibDeleteRecord(h, pos) ==
    IF pos < 1 \/ pos > Len(h.header) THEN [st |-> KEY_OUT_BOUNDS, hdu |-> h]
    ELSE [st |-> 0, hdu |-> [h EXCEPT !.header = RemoveAt(h.header, pos)]]

\* fits_read_record: the card as one string
CardText(c) == <<c.key, c.val, c.com>>

\* fits_close_file of a file opened READWRITE scans the header of the current
\* HDU again (ffrdef) and reports a header without its mandatory keywords
LibCloseFile(f, ext, mode) ==
    IF mode = READWRITE /\ ext \in 1..Len(f.hdus) /\ ~HduValid(f.hdus[ext])
    THEN NO_BITPIX
    ELSE 0

WithHdu(f, ext, h) == IF ext \in 1..Len(f.hdus) THEN [f EXCEPT !.hdus[ext] = h] ELSE f

(***************************************************************************)
(* Cfits_read_key.                                                         *)
(***************************************************************************)
ReadKeyPlan(f, keyname, typecode, ext) ==
    <<Call("open_file", LibOpenFile(f, READWRITE)),
      Call("movabs_hdu", LibMovabsHdu(f, ext))>>
    \o (IF typecode \in {TDOUBLE, TSTRING}
        THEN <<Call("read_key", LibReadKey(HduAt(f, ext), typecode, keyname).st),
               Call("close_file", LibCloseFile(f, ext, READWRITE))>>
        ELSE <<>>)

ReadKeyResult(f, keyname, typecode, ext) ==
    RVector(IF typecode = TDOUBLE THEN "numeric" ELSE "character",
            LibReadKey(HduAt(f, ext), typecode, keyname).value)

Cfits_read_key(keyname, typecode, ext, fail, ub) ==
    LET raw == ReadKeyPlan(file, keyname, typecode, ext)
        plan == Injected(raw, fail)
        tail == IF typecode \in {TDOUBLE, TSTRING} THEN "ok" ELSE "unsupported"
    IN  /\ Idle
        /\ FailApplies(raw, fail)
        /\ ub => ThrowOverruns(plan)
        /\ cur' = OpRecord("read_key",
                           [keyname |-> keyname, typecode |-> typecode, ext |-> ext],
                           plan, Outcome(plan, tail, ub),
                           ReadKeyResult(file, keyname, typecode, ext))
        /\ handle' = HandleAfter(plan, 1)
        /\ UNCHANGED <<file, abi>>

(***************************************************************************)
(* Cfits_update_key.                                                       *)
(***************************************************************************)
UpdateKeyWrites(typecode) == typecode \in {TSTRING, TINT, TLONGLONG, TDOUBLE}

UpdateKeyFile(f, keyvalue, keyname, comment, ext, typecode) ==
    WithHdu(f, ext, LibUpdateKey(HduAt(f, ext), typecode, keyname, keyvalue.vals[1], comment))

UpdateKeyPlan(f, keyvalue, keyname, comment, ext, typecode) ==
    <<Call("open_file", LibOpenFile(f, READWRITE)),
      Call("movabs_hdu", LibMovabsHdu(f, ext))>>
    \o (IF UpdateKeyWrites(typecode) THEN <<Call("update_key", 0)>> ELSE <<>>)
    \o <<Call("close_file", LibCloseFile(f, ext, READWRITE))>>

Cfits_update_key(keyvalue, keyname, comment, ext, typecode, fail, ub) ==
    LET raw == UpdateKeyPlan(file, keyvalue, keyname, comment, ext, typecode)
        plan == Injected(raw, fail)
    IN  /\ Idle
        /\ FailApplies(raw, fail)
        /\ ub => ThrowOverruns(plan)
        /\ cur' = OpRecord("update_key",
                           [keyvalue |-> keyvalue, keyname |-> keyname, comment |-> comment,
                            ext |-> ext, typecode |-> typecode],
                           plan, Outcome(plan, "ok", ub), RNull)
        /\ handle' = HandleAfter(plan, 1)
        /\ file' = IF UpdateKeyWrites(typecode) /\ Passed(plan, 3)
                   THEN UpdateKeyFile(file, keyvalue, keyname, comment, ext, typecode)
                   ELSE file
        /\ UNCHANGED abi

(***************************************************************************)
(* Cfits_read_header.                                                      *)
(***************************************************************************)
ReadHeaderPlan(f, ext) ==
    <<Call("open_image", LibOpenImage(f, READONLY)),
      Call("movabs_hdu", LibMovabsHdu(f, ext)),
      Call("get_hdrpos", 0)>>
    \o [ii \in 1..Len(HduAt(f, ext).header) |-> Call("read_record", 0)]
    \o <<Call("close_file", LibCloseFile(f, ext, READONLY))>>

Cfits_read_header(ext, fail, ub) ==
    LET raw == ReadHeaderPlan(file, ext)
        plan == Injected(raw, fail)
        hd == HduAt(file, ext).header
    IN  /\ Idle
        /\ FailApplies(raw, fail)
        /\ ub => ThrowOverruns(plan)
        /\ cur' = OpRecord("read_header", [ext |-> ext], plan, Outcome(plan, "ok", ub),
                           RVector("character", [ii \in 1..Len(hd) |-> CardText(hd[ii])]))
        /\ handle' = HandleAfter(plan, 1)
        /\ UNCHANGED <<file, abi>>

(***************************************************************************)
(* Cfits_delete_HDU.                                                       *)
(***************************************************************************)
\* fits_delete_hdu: the primary array is replaced by an empty one, an
\* extension is removed and the later HDUs move down
LibDeleteHdu(f, ext) ==
    IF ext = 1 THEN WithHdu(f, 1, NullPrimary(8))
    ELSE [f EXCEPT !.hdus = RemoveAt(f.hdus, ext)]

DeleteHduPlan(f, ext) ==
    <<Call("open_image", LibOpenImage(f, READWRITE)),
      Call("movabs_hdu", LibMovabsHdu(f, ext)),
      Call("delete_hdu", 0),
      Call("close_file", 0)>>

Cfits_delete_HDU(ext, fail, ub) ==
    LET raw == DeleteHduPlan(file, ext)
        plan == Injected(raw, fail)
    IN  /\ Idle
        /\ FailApplies(raw, fail)
        /\ ub => ThrowOverruns(plan)
        /\ cur' = OpRecord("delete_HDU", [ext |-> ext], plan, Outcome(plan, "ok", ub), RNull)
        /\ handle' = HandleAfter(plan, 1)
        /\ file' = IF Passed(plan, 3) THEN LibDeleteHdu(file, ext) ELSE file
        /\ UNCHANGED abi

(***************************************************************************)
(* Cfits_delete_key.                                                       *)
(***************************************************************************)
DeleteKeyFile(f, keyname, ext) == WithHdu(f, ext, LibDeleteKey(HduAt(f, ext), keyname).hdu)

DeleteKeyPlan(f, keyname, ext) ==
    <<Call("open_image", LibOpenImage(f, READWRITE)),
      Call("movabs_hdu", LibMovabsHdu(f, ext)),
      Call("delete_key", LibDeleteKey(HduAt(f, ext), keyname).st),
      Call("close_file", LibCloseFile(DeleteKeyFile(f, keyname, ext), ext, READWRITE))>>

Cfits_delete_key(keyname, ext, fail, ub) ==
    LET raw == DeleteKeyPlan(file, keyname, ext)
        plan == Injected(raw, fail)
    IN  /\ Idle
        /\ FailApplies(raw, fail)
        /\ ub => ThrowOverruns(plan)
        /\ cur' = OpRecord("delete_key", [keyname |-> keyname, ext |-> ext], plan,
                           Outcome(plan, "ok", ub), RNull)
        /\ handle' = HandleAfter(plan, 1)
        /\ file' = IF Passed(plan, 3) THEN DeleteKeyFile(file, keyname, ext) ELSE file
        /\ UNCHANGED abi

(***************************************************************************)
(* Cfits_delete_header: for (ii = 2; ii <= nkeys; ii++) delete_record(2).  *)
(***************************************************************************)
\* the HDU after n calls of fits_delete_record(fptr, 2) that found a card
RECURSIVE DeleteRecords(_, _)
DeleteRecords(h, n) ==
    IF n <= 0 THEN h ELSE DeleteRecords(LibDeleteRecord(h, 2).hdu, n - 1)

\* the calls of the loop from index ii on, h being the HDU at that moment
RECURSIVE DeleteHeaderLoop(_, _, _)
DeleteHeaderLoop(h, ii, nkeys) ==
    IF ii > nkeys THEN <<>>
    ELSE <<Call("delete_record", LibDeleteRecord(h, 2).st)>>
         \o DeleteHeaderLoop(LibDeleteRecord(h, 2).hdu, ii + 1, nkeys)

\* not the code: the loop run from ii = 1
DeleteHeaderPlanFromOne(f, ext) ==
    LET h == HduAt(f, ext)
        nkeys == Len(h.header)
    IN  <<Call("open_image", LibOpenImage(f, READWRITE)),
          Call("movabs_hdu", LibMovabsHdu(f, ext)),
          Call("get_hdrpos", 0)>>
        \o DeleteHeaderLoop(h, 1, nkeys)
        \o <<Call("close_file",
                  LibCloseFile(WithHdu(f, ext, DeleteRecords(h, nkeys)), ext, READWRITE))>>

DeleteHeaderPlan(f, ext) ==
    LET h == HduAt(f, ext)
        nkeys == Len(h.header)
    IN  <<Call("open_image", LibOpenImage(f, READWRITE)),
          Call("movabs_hdu", LibMovabsHdu(f, ext)),
          Call("get_hdrpos", 0)>>
        \o DeleteHeaderLoop(h, 2, nkeys)
        \o <<Call("close_file",
                  LibCloseFile(WithHdu(f, ext, DeleteRecords(h, nkeys - 1)), ext, READWRITE))>>

\* how many fits_delete_record calls were made and reported status 0
DeletionsDone(plan) ==
    Cardinality({i \in 1..Len(plan) : plan[i].f = "delete_record" /\ Passed(plan, i)})

Cfits_delete_header(ext, fail, ub) ==
    LET raw == DeleteHeaderPlan(file, ext)
        plan == Injected(raw, fail)
    IN  /\ Idle
        /\ FailApplies(raw, fail)
        /\ ub => ThrowOverruns(plan)
        /\ cur' = OpRecord("delete_header", [ext |-> ext], plan, Outcome(plan, "ok", ub), RNull)
        /\ handle' = HandleAfter(plan, 1)
        /\ file' = IF DeletionsDone(plan) > 0
                   THEN WithHdu(file, ext, DeleteRecords(HduAt(file, ext), DeletionsDone(plan)))
                   ELSE file
        /\ UNCHANGED abi

(***************************************************************************)
(* Cfits_create_image.                                                     *)
(***************************************************************************)
\* fits_create_file
LibCreateFile(f) == IF f.exists THEN FILE_NOT_CREATED ELSE 0

NewFile == [exists |-> TRUE, writable |-> TRUE, hdus |-> <<>>]

\* fits_create_img
LibCreateImg(bitpix, naxes) ==
    IF bitpix \notin {8, 16, 32, 64, 0 - 32, 0 - 64} THEN BAD_BITPIX
    ELSE IF \E i \in 1..Len(naxes) : naxes[i] < 0 THEN BAD_NAXES
    ELSE 0

CreateImagePlan(f, bitpix, naxis1, naxis2) ==
    <<Call("create_file", LibCreateFile(f)),
      Call("create_hdu", 0),
      Call("create_img", LibCreateImg(bitpix, <<naxis1, naxis2>>)),
      Call("close_file", 0)>>

Cfits_create_image(bitpix, naxis1, naxis2, fail, ub) ==
    LET raw == CreateImagePlan(file, bitpix, naxis1, naxis2)
        plan == Injected(raw, fail)
    IN  /\ Idle
        /\ FailApplies(raw, fail)
        /\ ub => ThrowOverruns(plan)
        /\ cur' = OpRecord("create_image",
                           [bitpix |-> bitpix, naxis1 |-> naxis1, naxis2 |-> naxis2],
                           plan, Outcome(plan, "ok", ub), RNull)
        /\ handle' = HandleAfter(plan, 1)
        /\ file' = IF Passed(plan, 3)
                   THEN [NewFile EXCEPT !.hdus =
                            <<ImageHdu(bitpix, naxis1, naxis2, Repeat(0, naxis1 * naxis2))>>]
                   ELSE IF Passed(plan, 1) THEN NewFile
                   ELSE file
        /\ UNCHANGED abi

(***************************************************************************)
(* Cfits_create_bintable.                                                  *)
(***************************************************************************)
\* fits_create_tbl
LibCreateTbl(tfields, tforms) ==
    IF tfields < 0 \/ tfields > 999 THEN BAD_TFIELDS
    ELSE IF \E i \in 1..tfields : ~TformValid(tforms[i]) THEN BAD_TFORM
    ELSE 0

CreateBintablePlan(f, tfields, tforms) ==
    <<Call("create_file", LibCreateFile(f)),
      Call("create_hdu", 0),
      Call("create_tbl", LibCreateTbl(tfields, tforms)),
      Call("close_file", 0)>>

NewColumns(tfields, ttypes, tforms, tunits) ==
    [i \in 1..tfields |-> Column(ttypes[i], tforms[i], tunits[i], <<>>)]

Cfits_create_bintable(tfields, ttypes, tforms, tunits, extname, fail, ub) ==
    LET raw == CreateBintablePlan(file, tfields, tforms)
        plan == Injected(raw, fail)
    IN  /\ Idle
        /\ FailApplies(raw, fail)
        /\ ub => ThrowOverruns(plan)
        /\ cur' = OpRecord("create_bintable",
                           [tfields |-> tfields, ttypes |-> ttypes, tforms |-> tforms,
                            tunits |-> tunits, extname |-> extname],
                           plan, Outcome(plan, "ok", ub), RNull)
        /\ handle' = HandleAfter(plan, 1)
        /\ file' = IF Passed(plan, 3)
                   THEN [NewFile EXCEPT !.hdus =
                            <<NullPrimary(16),
                              TableHdu(NewColumns(tfields, ttypes, tforms, tunits), 0, extname)>>]
                   ELSE IF Passed(plan, 1) THEN NewFile
                   ELSE file
        /\ UNCHANGED abi

(***************************************************************************)
(* CFITSIO: table columns.                                                 *)
(***************************************************************************)
\* the values a column of the given type letter can store
StoreMin(c) ==
    CASE c = "B" -> 0 [] c = "I" -> 0 - 32768 [] c = "J" -> 0 - 2000000000
      [] OTHER -> HugeNeg

StoreMax(c) ==
    CASE c = "B" -> 255 [] c = "I" -> 32767 [] c = "J" -> 2000000000
      [] OTHER -> HugePos

\* the cell a table holds where nothing was written: zero bytes
EmptyCell(c) == IF c = "A" THEN <<>> ELSE 0

\* one value as the column stores it
StoreCell(tform, datatype, v) ==
    IF datatype = TSTRING
    THEN SubSeq(v, 1, IF Len(v) < TformRepeat(tform) THEN Len(v) ELSE TformRepeat(tform))
    ELSE IF v = NaN THEN NaN
    ELSE Clip(v, StoreMin(TformLetter(tform)), StoreMax(TformLetter(tform)))

\* fits_write_col: the status for nelem values of datatype written to column colref
LibWriteColStatus(h, datatype, colref, nelem, vals) ==
    IF h.type # "BINARY_TBL" THEN NOT_TABLE
    ELSE IF colref < 1 \/ colref > Len(h.cols) THEN BAD_COL_NUM
    ELSE IF nelem = 0 THEN 0
    ELSE IF datatype = TSTRING /\ TformLetter(h.cols[colref].tform) # "A" THEN NOT_ASCII_COL
    ELSE IF datatype # TSTRING /\ TformLetter(h.cols[colref].tform) \in {"A", "L"}
         THEN BAD_BTABLE_FORMAT
    ELSE IF datatype # TSTRING
            /\ \E i \in 1..nelem : StoreCell(h.cols[colref].tform, datatype, vals[i]) # vals[i]
         THEN NUM_OVERFLOW
    ELSE 0

\* the cells of a column made n cells long with empty cells
PadCells(col, n) ==
    col.cells \o Repeat(EmptyCell(TformLetter(col.tform)), n - Len(col.cells))

\* fits_write_col: rows 1..nelem of column colref are overwritten; a table
\* with fewer rows grows, the new cells of the other columns are empty
LibWriteCol(h, datatype, colref, nelem, vals) ==
    LET nrows == IF nelem > h.nrows THEN nelem ELSE h.nrows
        grown == [c \in 1..Len(h.cols) |->
                    [h.cols[c] EXCEPT !.cells = PadCells(h.cols[c], nrows)]]
        new == [r \in 1..nrows |->
                    IF r <= nelem THEN StoreCell(h.cols[colref].tform, datatype, vals[r])
                    ELSE grown[colref].cells[r]]
    IN  IF LibWriteColStatus(h, datatype, colref, nelem, vals) \notin {0, NUM_OVERFLOW}
           \/ nelem = 0
        THEN h
        ELSE [h EXCEPT !.cols = [grown EXCEPT ![colref].cells = new],
                       !.nrows = nrows,
                       !.header = SetCardValue(h.header, "NAXIS2", IntText(nrows))]

\* fits_read_col: the first nelem cells of the column as datatype; with a
\* null value other than 0 an undefined cell (NaN) is read as the null value
LibReadCol(h, colref, nelem, nulval) ==
    [r \in 1..nelem |->
        IF h.cols[colref].cells[r] = NaN /\ nulval # 0 THEN nulval
        ELSE h.cols[colref].cells[r]]

(***************************************************************************)
(* Cfits_write_col.                                                        *)
(***************************************************************************)
WriteColWrites(typecode) == typecode \in {TSTRING, TINT, TLONGLONG, TDOUBLE}

WriteColPlan(f, data, nrow, colref, ext, typecode) ==
    <<Call("open_file", LibOpenFile(f, READWRITE)),
      Call("movabs_hdu", LibMovabsHdu(f, ext))>>
    \o (IF WriteColWrites(typecode)
        THEN <<Call("write_col",
                    LibWriteColStatus(HduAt(f, ext), typecode, colref, nrow, data.vals))>>
        ELSE <<>>)
    \o <<Call("close_file", 0)>>

\* the write_col call was made and the library wrote (also when it reports an overflow)
WriteColDone(plan, typecode, fail) ==
    /\ WriteColWrites(typecode)
    /\ Passed(plan, 2)
    /\ fail # 3
    /\ plan[3].st \in {0, NUM_OVERFLOW}

Cfits_write_col(data, nrow, colref, ext, typecode, fail, ub) ==
    LET raw == WriteColPlan(file, data, nrow, colref, ext, typecode)
        plan == Injected(raw, fail)
    IN  /\ Idle
        /\ FailApplies(raw, fail)
        /\ ub => ThrowOverruns(plan)
        /\ HduAt(file, ext).type # "IMAGE_HDU"
        /\ cur' = OpRecord("write_col",
                           [data |-> data, nrow |-> nrow, colref |-> colref, ext |-> ext,
                            typecode |-> typecode],
                           plan, Outcome(plan, "ok", ub), RNull)
        /\ handle' = HandleAfter(plan, 1)
        /\ file' = IF WriteColDone(plan, typecode, fail)
                   THEN WithHdu(file, ext,
                                LibWriteCol(HduAt(file, ext), typecode, colref, nrow, data.vals))
                   ELSE file
        /\ UNCHANGED abi

(***************************************************************************)
(* Cfits_read_col: the chain of branches on the column's type code.        *)
(***************************************************************************)
\* not the code: the TLONG branch put before the TINT32BIT branch
ReadColBranchLongFirst(typecode) ==
    IF typecode = TSTRING THEN [nullval |-> 0, rtype |-> "character"]
    ELSE IF typecode = TBYTE THEN [nullval |-> 0, rtype |-> "integer"]
    ELSE IF typecode = TLONG THEN [nullval |-> 0 - 999, rtype |-> "numeric"]
    ELSE IF typecode = TSHORT THEN [nullval |-> 0 - 128, rtype |-> "integer"]
    ELSE IF typecode = TFLOAT THEN [nullval |-> 0 - 999, rtype |-> "numeric"]
    ELSE IF typecode = TLONGLONG THEN [nullval |-> 0 - 999, rtype |-> "integer64"]
    ELSE IF typecode = TDOUBLE THEN [nullval |-> 0 - 999, rtype |-> "numeric"]
    ELSE [nullval |-> 0, rtype |-> "NULL"]

\* the null value and the host vector of the branch taken
ReadColBranch(typecode) ==
    IF typecode = TSTRING THEN [nullval |-> 0, rtype |-> "character"]
    ELSE IF typecode = TBYTE THEN [nullval |-> 0, rtype |-> "integer"]
    ELSE IF typecode = TINT THEN [nullval |-> 0 - 999, rtype |-> "integer"]
    ELSE IF typecode = TUINT THEN [nullval |-> 0, rtype |-> "integer"]
    ELSE IF typecode = TINT32BIT THEN [nullval |-> 0, rtype |-> "integer"]
    ELSE IF typecode = TSHORT THEN [nullval |-> 0 - 128, rtype |-> "integer"]
    ELSE IF typecode = TUSHORT THEN [nullval |-> 255, rtype |-> "integer"]
    ELSE IF typecode = TFLOAT THEN [nullval |-> 0 - 999, rtype |-> "numeric"]
    ELSE IF typecode = TLONG THEN [nullval |-> 0 - 999, rtype |-> "numeric"]
    ELSE IF typecode = TLONGLONG THEN [nullval |-> 0 - 999, rtype |-> "integer64"]
    ELSE IF typecode = TDOUBLE THEN [nullval |-> 0 - 999, rtype |-> "numeric"]
    ELSE [nullval |-> 0, rtype |-> "NULL"]

ReadColSupported(typecode) == ReadColBranch(typecode).rtype # "NULL"

\* the type code fits_get_coltype gives for the column
ReadColType(f, colref, ext) ==
    IF colref \in 1..Len(HduAt(f, ext).cols)
    THEN ColTypeCode(HduAt(f, ext).cols[colref].tform)
    ELSE 0

ReadColPlan(f, colref, ext) ==
    <<Call("open_file", LibOpenFile(f, READONLY)),
      Call("movabs_hdu", LibMovabsHdu(f, ext)),
      Call("get_num_rows", LibTableStatus(HduAt(f, ext))),
      Call("get_coltype",
           IF colref \in 1..Len(HduAt(f, ext).cols) THEN 0 ELSE BAD_COL_NUM)>>
    \o (IF ReadColType(f, colref, ext) = TSTRING
        THEN <<Call("get_col_display_width", 0)>> ELSE <<>>)
    \o (IF ReadColSupported(ReadColType(f, colref, ext))
        THEN <<Call("read_col", 0), Call("close_file", 0)>> ELSE <<>>)

ReadColResult(f, colref, ext) ==
    LET h == HduAt(f, ext)
        branch == ReadColBranch(ReadColType(f, colref, ext))
    IN  RVector(branch.rtype, LibReadCol(h, colref, h.nrows, branch.nullval))

\* &(col[0]) of an empty std::vector in the TLONGLONG branch
ReadColEmptyVector(f, colref, ext) ==
    ReadColType(f, colref, ext) = TLONGLONG /\ HduAt(f, ext).nrows = 0

Cfits_read_col(colref, ext, fail, ub) ==
    LET raw == ReadColPlan(file, colref, ext)
        plan == Injected(raw, fail)
        tail == IF ~ReadColSupported(ReadColType(file, colref, ext)) THEN "unsupported"
                ELSE IF ReadColEmptyVector(file, colref, ext) /\ ub THEN "abort"
                ELSE "ok"
    IN  /\ Idle
        /\ FailApplies(raw, fail)
        /\ ub => ThrowOverruns(plan) \/ (~Thrown(plan) /\ ReadColEmptyVector(file, colref, ext))
        /\ cur' = OpRecord("read_col", [colref |-> colref, ext |-> ext], plan,
                           Outcome(plan, tail, ub), ReadColResult(file, colref, ext))
        /\ handle' = HandleAfter(plan, 1)
        /\ UNCHANGED <<file, abi>>

(***************************************************************************)
(* The host's memory: a buffer of one element type read as another.        *)
(***************************************************************************)
\* the two 16-bit halves of a 32-bit int, low half first
Halves16(v) ==
    LET lo == v % 65536
        hi == (v - lo) \div 65536
    IN  <<IF lo >= 32768 THEN lo - 65536 ELSE lo, hi>>

\* the 64-bit long made of two 32-bit words
Long64(lo, hi) ==
    IF hi = 0 /\ lo >= 0 THEN lo
    ELSE IF hi = 0 - 1 /\ lo < 0 THEN lo
    ELSE IF hi < 0 THEN HugeNeg
    ELSE HugePos

\* the float whose four bytes are the upper word of the double x, for the
\* doubles 0.0, 2.0 (0x40000000 00000000), 32.0 (0x40400000 00000000) and
\* 512.0 (0x40800000 00000000); the lower word of each is the float 0.0
HighWordFloat(x) == CASE x = 0 -> 0 [] x = 2 -> 2 [] x = 32 -> 3 [] x = 512 -> 4

InOrder(a, pair) == IF a.endian = "little" THEN pair ELSE <<pair[2], pair[1]>>

RECURSIVE AsShorts(_, _)
AsShorts(a, ints) ==
    IF ints = <<>> THEN <<>>
    ELSE InOrder(a, Halves16(Head(ints))) \o AsShorts(a, Tail(ints))

RECURSIVE AsFloats(_, _)
AsFloats(a, doubles) ==
    IF doubles = <<>> THEN <<>>
    ELSE InOrder(a, <<0, HighWordFloat(Head(doubles))>>) \o AsFloats(a, Tail(doubles))

RECURSIVE AsLongs(_, _)
AsLongs(a, ints) ==
    IF Len(ints) < 2 THEN <<>>
    ELSE <<Long64(InOrder(a, <<ints[1], ints[2]>>)[1], InOrder(a, <<ints[1], ints[2]>>)[2])>>
         \o AsLongs(a, Tail(Tail(ints)))

\* the int made of four bytes
PackInt(a, b) ==
    LET o == IF a.endian = "little" THEN b ELSE <<b[4], b[3], b[2], b[1]>>
    IN  o[1] + 256 * o[2] + 65536 * o[3]
        + 16777216 * (IF o[4] >= 128 THEN o[4] - 256 ELSE o[4])

\* a zeroed buffer of n ints after n bytes were stored at its start
RECURSIVE AsInts(_, _, _)
AsInts(a, bytes, n) ==
    IF n = 0 THEN <<>>
    ELSE LET b == bytes \o Repeat(0, 4 - Len(bytes))
         IN  <<PackInt(a, SubSeq(b, 1, 4))>>
             \o AsInts(a, IF Len(bytes) > 4 THEN SubSeq(bytes, 5, Len(bytes)) ELSE <<>>, n - 1)

\* the nelements elements the library takes from the buffer of an R vector
\* when told they are of datatype; words past the buffer's end hold junk
BufferAs(a, datatype, data, nelements, junk) ==
    LET all == IF datatype = TSHORT THEN AsShorts(a, data.vals)
               ELSE IF datatype = TFLOAT THEN AsFloats(a, data.vals)
               ELSE IF datatype = TLONG /\ a.long = 8
                    THEN AsLongs(a, data.vals \o Repeat(junk, Len(data.vals)))
               ELSE data.vals
    IN  SubSeq(all \o Repeat(junk, nelements), 1, nelements)

(***************************************************************************)
(* CFITSIO: image pixels.                                                  *)
(***************************************************************************)
PixelMin(bitpix) ==
    CASE bitpix = 8 -> 0 [] bitpix = 16 -> 0 - 32768 [] bitpix = 32 -> 0 - 2000000000
      [] OTHER -> HugeNeg

PixelMax(bitpix) ==
    CASE bitpix = 8 -> 255 [] bitpix = 16 -> 32767 [] bitpix = 32 -> 2000000000
      [] OTHER -> HugePos

\* the BITPIX whose range is the range of the datatype read into
TypeRange(a, datatype) ==
    CASE datatype = TBYTE -> 8 [] datatype = TSHORT -> 16 [] datatype = TINT -> 32
      [] datatype = TLONG -> (IF a.long = 8 THEN 64 ELSE 32)
      [] OTHER -> 0 - 64

ClipAll(vals, bitpix) == [i \in 1..Len(vals) |-> Clip(vals[i], PixelMin(bitpix), PixelMax(bitpix))]

\* fits_write_pix from the first pixel
LibWritePixStatus(h, elems) ==
    IF Len(elems) > NumPixels(h) THEN BAD_ROW_NUM
    ELSE IF ClipAll(elems, h.bitpix) # elems THEN NUM_OVERFLOW
    ELSE 0

LibWritePix(h, elems) ==
    IF LibWritePixStatus(h, elems) \notin {0, NUM_OVERFLOW} THEN h
    ELSE [h EXCEPT !.pixels = ClipAll(elems, h.bitpix)
                                \o SubSeq(h.pixels, Len(elems) + 1, Len(h.pixels))]

\* fits_read_img from the first pixel
LibReadImgStatus(a, h, datatype, nelem) ==
    IF nelem > NumPixels(h) THEN BAD_ROW_NUM
    ELSE IF ClipAll(SubSeq(h.pixels, 1, nelem), TypeRange(a, datatype))
            # SubSeq(h.pixels, 1, nelem) THEN NUM_OVERFLOW
    ELSE 0

LibReadImg(a, h, datatype, nelem) ==
    ClipAll(SubSeq(h.pixels, 1, nelem), TypeRange(a, datatype))

\* the positions first, first + inc, ... up to last
Strided(first, last, inc) == {x \in first..last : (x - first) % inc = 0}

\* the set S in increasing order
RECURSIVE Ascending(_)
Ascending(S) == IF S = {} THEN <<>> ELSE <<Min(S)>> \o Ascending(S \ {Min(S)})

\* fits_read_subset: the pixels of the region, the first axis running fastest
LibReadSubsetStatus(a, h, datatype, fpixel, lpixel, inc) ==
    IF Len(h.naxes) # 2 THEN BAD_NAXES
    ELSE IF lpixel[1] < fpixel[1] \/ lpixel[2] < fpixel[2] THEN BAD_PIX_NUM
    ELSE IF \E i \in 1..2 : fpixel[i] < 1 \/ lpixel[i] > h.naxes[i] THEN BAD_PIX_NUM
    ELSE IF ClipAll(h.pixels, TypeRange(a, datatype)) # h.pixels THEN NUM_OVERFLOW
    ELSE 0

RECURSIVE SubsetRows(_, _, _)
SubsetRows(h, xs, ys) ==
    IF ys = <<>> THEN <<>>
    ELSE [i \in 1..Len(xs) |-> h.pixels[(Head(ys) - 1) * h.naxes[1] + xs[i]]]
         \o SubsetRows(h, xs, Tail(ys))

LibReadSubset(a, h, datatype, fpixel, lpixel, inc) ==
    ClipAll(SubsetRows(h, Ascending(Strided(fpixel[1], lpixel[1], inc)),
                       Ascending(Strided(fpixel[2], lpixel[2], inc))),
            TypeRange(a, datatype))

(***************************************************************************)
(* Cfits_write_image.                                                      *)
(***************************************************************************)
WriteImageWrites(datatype) == datatype \in {TINT, TSHORT, TLONG, TDOUBLE, TFLOAT}

WriteImagePlan(a, f, data, datatype, naxis1, naxis2, ext, junk) ==
    <<Call("open_file", LibOpenFile(f, READWRITE)),
      Call("movabs_hdu", LibMovabsHdu(f, ext))>>
    \o (IF WriteImageWrites(datatype)
        THEN <<Call("write_pix",
                    LibWritePixStatus(HduAt(f, ext),
                                      BufferAs(a, datatype, data, naxis1 * naxis2, junk)))>>
        ELSE <<>>)
    \o <<Call("close_file", 0)>>

WriteImageDone(plan, datatype, fail) ==
    /\ WriteImageWrites(datatype)
    /\ Passed(plan, 2)
    /\ fail # 3
    /\ plan[3].st \in {0, NUM_OVERFLOW}

Cfits_write_image(data, datatype, naxis1, naxis2, ext, junk, fail, ub) ==
    LET raw == WriteImagePlan(abi, file, data, datatype, naxis1, naxis2, ext, junk)
        plan == Injected(raw, fail)
    IN  /\ Idle
        /\ FailApplies(raw, fail)
        /\ ub => ThrowOverruns(plan)
        /\ HduAt(file, ext).type # "BINARY_TBL"
        /\ cur' = OpRecord("write_image",
                           [data |-> data, datatype |-> datatype, naxis1 |-> naxis1,
                            naxis2 |-> naxis2, ext |-> ext],
                           plan, Outcome(plan, "ok", ub), RNull)
        /\ handle' = HandleAfter(plan, 1)
        /\ file' = IF WriteImageDone(plan, datatype, fail)
                   THEN WithHdu(file, ext,
                                LibWritePix(HduAt(file, ext),
                                            BufferAs(abi, datatype, data, naxis1 * naxis2, junk)))
                   ELSE file
        /\ UNCHANGED abi

(***************************************************************************)
(* Cfits_read_img.                                                         *)
(***************************************************************************)
ReadImgSupported(datatype) == datatype \in {TFLOAT, TDOUBLE, TBYTE, TSHORT, TLONG}

\* the host matrix of the branch: NumericMatrix or IntegerMatrix
ReadImgRtype(datatype) == IF datatype \in {TFLOAT, TDOUBLE} THEN "numeric" ELSE "integer"

ReadImgPlan(a, f, naxis1, naxis2, ext, datatype) ==
    <<Call("open_image", LibOpenImage(f, READONLY)),
      Call("movabs_hdu", LibMovabsHdu(f, ext))>>
    \o (IF ReadImgSupported(datatype) /\ naxis1 * naxis2 >= 0
        THEN <<Call("read_img", LibReadImgStatus(a, HduAt(f, ext), datatype, naxis1 * naxis2)),
               Call("close_file", 0)>>
        ELSE <<>>)

\* the npixels elements of the std::vector after the library stored npixels
\* elements of datatype in it: the TBYTE branch has a vector of int
PixelVector(a, datatype, stored, npixels) ==
    IF datatype = TBYTE
    THEN AsInts(a, stored, npixels)
    ELSE stored \o Repeat(0, npixels - Len(stored))

\* stands for the low 32 bits of a value beyond the 32-bit range
Wrapped == 1000000000 + 7

\* std::copy of the vector into the matrix: a long beyond the range of int
\* becomes an int of another value
MatrixValues(datatype, vals) ==
    IF datatype \in {TFLOAT, TDOUBLE} THEN vals
    ELSE [i \in 1..Len(vals) |-> IF vals[i] \in {HugePos, HugeNeg} THEN Wrapped
                                  ELSE vals[i]]

ReadImgResult(a, f, naxis1, naxis2, ext, datatype) ==
    RMatrix(ReadImgRtype(datatype), naxis1, naxis2,
            MatrixValues(datatype,
                         PixelVector(a, datatype,
                                     LibReadImg(a, HduAt(f, ext), datatype, naxis1 * naxis2),
                                     naxis1 * naxis2)))

ReadImgTail(datatype, npixels) ==
    IF ~ReadImgSupported(datatype) THEN "unsupported"
    ELSE IF npixels < 0 THEN "length_error"
    ELSE "ok"

Cfits_read_img(naxis1, naxis2, ext, datatype, fail, ub) ==
    LET raw == ReadImgPlan(abi, file, naxis1, naxis2, ext, datatype)
        plan == Injected(raw, fail)
    IN  /\ Idle
        /\ FailApplies(raw, fail)
        /\ ub => ThrowOverruns(plan)
        /\ HduAt(file, ext).type # "BINARY_TBL"
        /\ cur' = OpRecord("read_img",
                           [naxis1 |-> naxis1, naxis2 |-> naxis2, ext |-> ext,
                            datatype |-> datatype],
                           plan, Outcome(plan, ReadImgTail(datatype, naxis1 * naxis2), ub),
                           ReadImgResult(abi, file, naxis1, naxis2, ext, datatype))
        /\ handle' = HandleAfter(plan, 1)
        /\ UNCHANGED <<file, abi>>

(***************************************************************************)
(* Cfits_read_img_subset.  The pointer inc is the address 1 and no array   *)
(* of strides: the library's read of inc[0], inc[1] faults (inc = 0 below) *)
(* or finds some stride.                                                   *)
(***************************************************************************)
SubsetNaxis1(fpixel, lpixel) == lpixel[2] - fpixel[1] + 1

SubsetNaxis2(fpixel, lpixel) == lpixel[2] - lpixel[1] + 1

SubsetNpixels(fpixel, lpixel) == SubsetNaxis1(fpixel, lpixel) * SubsetNaxis2(fpixel, lpixel)

SubsetReads(fpixel, lpixel, datatype) ==
    ReadImgSupported(datatype) /\ SubsetNpixels(fpixel, lpixel) >= 0

SubsetPlan(a, f, fpixel, lpixel, ext, datatype, inc) ==
    <<Call("open_image", LibOpenImage(f, READONLY)),
      Call("movabs_hdu", LibMovabsHdu(f, ext))>>
    \o (IF SubsetReads(fpixel, lpixel, datatype)
        THEN <<Call("read_subset",
                    IF inc = 0 THEN 0
                    ELSE LibReadSubsetStatus(a, HduAt(f, ext), datatype, fpixel, lpixel, inc)),
               Call("close_file", 0)>>
        ELSE <<>>)

\* the pixels the library stores in the vector
SubsetStored(a, f, fpixel, lpixel, ext, datatype, inc) ==
    LibReadSubset(a, HduAt(f, ext), datatype, fpixel, lpixel, inc)

\* the library stores more elements than the vector holds
SubsetOverrun(a, f, fpixel, lpixel, ext, datatype, inc) ==
    Len(SubsetStored(a, f, fpixel, lpixel, ext, datatype, inc))
    > SubsetNpixels(fpixel, lpixel) * (IF datatype = TBYTE THEN 4 ELSE 1)

SubsetResult(a, f, fpixel, lpixel, ext, datatype, inc) ==
    LET n == SubsetNpixels(fpixel, lpixel)
        stored == SubsetStored(a, f, fpixel, lpixel, ext, datatype, inc)
        kept == IF datatype = TBYTE
                THEN SubSeq(stored, 1, Min({Len(stored), 4 * n}))
                ELSE SubSeq(stored, 1, Min({Len(stored), n}))
    IN  RMatrix(ReadImgRtype(datatype), SubsetNaxis1(fpixel, lpixel),
                SubsetNaxis2(fpixel, lpixel),
                MatrixValues(datatype, PixelVector(a, datatype, kept, n)))

\* how the operation ends when no library call reports an error
SubsetTail(a, f, fpixel, lpixel, ext, datatype, inc, ub) ==
    IF ~ReadImgSupported(datatype) THEN "unsupported"
    ELSE IF SubsetNpixels(fpixel, lpixel) < 0 THEN "length_error"
    ELSE IF SubsetOverrun(a, f, fpixel, lpixel, ext, datatype, inc) /\ ub THEN "abort"
    ELSE IF SubsetNaxis1(fpixel, lpixel) < 0 \/ SubsetNaxis2(fpixel, lpixel) < 0
         THEN "rerror"
    ELSE "ok"

Cfits_read_img_subset(fpixel, lpixel, ext, datatype, inc, fail, ub) ==
    LET raw == SubsetPlan(abi, file, fpixel, lpixel, ext, datatype, inc)
        plan == Injected(raw, fail)
        faults == inc = 0 /\ SubsetReads(fpixel, lpixel, datatype) /\ Passed(plan, 2)
                  /\ fail # 3
    IN  /\ Idle
        /\ FailApplies(raw, fail)
        /\ ub => ThrowOverruns(plan)
                  \/ (~Thrown(plan) /\ inc # 0 /\ SubsetReads(fpixel, lpixel, datatype)
                      /\ SubsetOverrun(abi, file, fpixel, lpixel, ext, datatype, inc))
        /\ HduAt(file, ext).type # "BINARY_TBL"
        /\ cur' = IF faults
                  THEN OpRecord("read_img_subset",
                                [fpixel |-> fpixel, lpixel |-> lpixel, ext |-> ext,
                                 datatype |-> datatype, inc |-> inc],
                                SubSeq(plan, 1, 2), "abort", RNull)
                  ELSE OpRecord("read_img_subset",
                                [fpixel |-> fpixel, lpixel |-> lpixel, ext |-> ext,
                                 datatype |-> datatype, inc |-> inc],
                                plan,
                                Outcome(plan, SubsetTail(abi, file, fpixel, lpixel, ext,
                                                         datatype, inc, ub), ub),
                                SubsetResult(abi, file, fpixel, lpixel, ext, datatype, inc))
        /\ handle' = IF faults THEN "open" ELSE HandleAfter(plan, 1)
        /\ UNCHANGED <<file, abi>>

(***************************************************************************)
(* Cfits_read_colname: the loop runs one fits_get_colname a step.          *)
(***************************************************************************)
\* fits_get_colname with the template "*": every column matches.  The search
\* starts at the first column unless the status passed in is COL_NOT_UNIQUE,
\* and a status passed in that is another error comes back untouched.
LibGetColname(h, status, startcol) ==
    LET start == IF status = COL_NOT_UNIQUE THEN startcol ELSE 0
        match == {c \in 1..Len(h.cols) : c > start}
    IN  IF status > 0 /\ status # COL_NOT_UNIQUE
        THEN [st |-> status, set |-> FALSE, colname |-> <<>>, colnum |-> 0,
              startcol |-> startcol]
        ELSE IF match = {}
        THEN [st |-> COL_NOT_FOUND, set |-> TRUE, colname |-> <<>>, colnum |-> 0,
              startcol |-> 0]
        ELSE [st |-> IF Cardinality(match) > 1 \/ status = COL_NOT_UNIQUE
                     THEN COL_NOT_UNIQUE ELSE 0,
              set |-> TRUE, colname |-> h.cols[Min(match)].name, colnum |-> Min(match),
              startcol |-> Min(match)]

ReadColnamePlan(f, ext) ==
    <<Call("open_file", LibOpenFile(f, READONLY)),
      Call("movabs_hdu", LibMovabsHdu(f, ext)),
      Call("get_num_cols", LibTableStatus(HduAt(f, ext)))>>

\* the locals when the loop is entered
ColnameLocals(f, colref, ext) ==
    [status |-> 0, ii |-> 0, colref |-> colref, colname |-> <<>>, startcol |-> 0,
     ncol |-> Len(HduAt(f, ext).cols), ext |-> ext, overrun |-> FALSE,
     out |-> Repeat(<<>>, Len(HduAt(f, ext).cols))]

Cfits_read_colname(colref, ext, fail, ub) ==
    LET raw == ReadColnamePlan(file, ext)
        plan == Injected(raw, fail)
    IN  /\ Idle
        /\ FailApplies(raw, fail)
        /\ ub => ThrowOverruns(plan)
        /\ cur' = IF Thrown(plan)
                  THEN OpRecord("read_colname", [colref |-> colref, ext |-> ext], plan,
                                Outcome(plan, "ok", ub), RNull)
                  ELSE [OpRecord("read_colname", [colref |-> colref, ext |-> ext], plan,
                                 "running", RNull)
                        EXCEPT !.pc = "loop", !.loop = ColnameLocals(file, colref, ext)]
        /\ handle' = HandleAfter(plan, 1)
        /\ UNCHANGED <<file, abi>>

\* one turn of  while (status != COL_NOT_FOUND): the lookup, the store in
\* out[ii] and ii++.  A store at ii >= ncol is outside the vector: the host
\* raises an error, or (ub) memory is overwritten and the loop goes on.
ColnameLookup(io, ub) ==
    LET l == cur.loop
        r == LibGetColname(HduAt(file, l.ext), IF io THEN READ_ERROR ELSE l.status,
                           l.startcol)
        stores == r.st # COL_NOT_FOUND
        name == IF r.set THEN r.colname ELSE l.colname
        outside == stores /\ l.ii >= l.ncol
    IN  /\ cur.pc = "loop"
        /\ l.status # COL_NOT_FOUND
        /\ l.ii < MaxLoop
        /\ ub => outside
        /\ cur' = [cur EXCEPT
                     !.calls = Append(@, Call("get_colname", r.st)),
                     !.pc = IF outside /\ ~ub THEN "done" ELSE "loop",
                     !.outcome = IF outside /\ ~ub THEN "rerror" ELSE "running",
                     !.loop = [l EXCEPT
                                 !.status = r.st,
                                 !.colname = name,
                                 !.colref = IF r.set THEN r.colnum ELSE @,
                                 !.startcol = r.startcol,
                                 !.overrun = @ \/ outside,
                                 !.out = IF stores /\ ~outside
                                         THEN [@ EXCEPT ![l.ii + 1] = name] ELSE @,
                                 !.ii = @ + 1]]
        /\ UNCHANGED <<file, handle, abi>>

\* the loop is left: fits_close_file and the return of out
ColnameReturn(fail, ub) ==
    LET raw == <<Call("close_file", 0)>>
        plan == Injected(raw, fail)
    IN  /\ cur.pc = "loop"
        /\ cur.loop.status = COL_NOT_FOUND
        /\ FailApplies(raw, fail)
        /\ ub => ThrowOverruns(plan)
        /\ cur' = [cur EXCEPT
                     !.calls = @ \o Invoked(plan),
                     !.pc = "done",
                     !.outcome = Outcome(plan, "ok", ub),
                     !.result = IF Thrown(plan) THEN RNull
                                ELSE RVector("character", cur.loop.out)]
        /\ handle' = "closed"
        /\ UNCHANGED <<file, abi>>

(***************************************************************************)
(* The specification of all sixteen operations, on one file that does not  *)
(* exist at first, with an I/O failure injected at any of the first calls. *)
(***************************************************************************)
MaxExt == 2         \* largest HDU number asked for

MaxFail == 3        \* last call number at which an I/O failure is injected

Exts == 1..MaxExt

Fails == 0..MaxFail

\* a 64-bit little-endian host
Host == [endian |-> "little", long |-> 8]

NoOp == [op |-> "none", args |-> <<>>, calls |-> <<>>, outcome |-> "ok", result |-> RNull,
         pc |-> "done", loop |-> <<>>]

Init ==
    /\ file = NoFile
    /\ cur = NoOp
    /\ handle = "none"
    /\ abi = Host

\* the default of the typecode parameter, which no branch handles
DefaultTypecode == 1

SomeInts == RVector("integer", <<7, 8>>)

SomeNames == <<<<"a">>, <<"b">>, <<"c">>>>

SomeForms == <<<<"1", "J">>, <<"1", "D">>, <<"1", "K">>>>

SomeUnits == <<<<>>, <<"m">>, <<>>>>

Next ==
    \/ \E ext \in Exts, fail \in Fails, ub \in BOOLEAN :
          \/ Cfits_read_nrow(ext, fail, ub)
          \/ Cfits_read_ncol(ext, fail, ub)
          \/ Cfits_read_header(ext, fail, ub)
          \/ Cfits_delete_HDU(ext, fail, ub)
          \/ Cfits_delete_header(ext, fail, ub)
          \/ Cfits_delete_key("EXTEND", ext, fail, ub)
          \/ Cfits_read_col(1, ext, fail, ub)
          \/ Cfits_read_colname(1, ext, fail, ub)
          \/ Cfits_read_key("NAXIS", TDOUBLE, ext, fail, ub)
          \/ Cfits_update_key(RVector("integer", <<7>>), "OBJECT", "", ext, TINT, fail, ub)
          \/ Cfits_write_image(SomeInts, TINT, 1, 2, ext, 0, fail, ub)
          \/ \E typecode \in {TINT, DefaultTypecode} :
                \/ Cfits_write_col(SomeInts, 2, 1, ext, typecode, fail, ub)
                \/ Cfits_read_img(1, 2, ext, typecode, fail, ub)
          \/ \E inc \in 0..1 :
                Cfits_read_img_subset(<<1, 1>>, <<1, 2>>, ext, TLONG, inc, fail, ub)
    \/ \E fail \in Fails, ub \in BOOLEAN :
          \/ Cfits_create_image(32, 1, 2, fail, ub)
          \/ \E tfields \in 1..MaxCols :
                Cfits_create_bintable(tfields, SubSeq(SomeNames, 1, tfields),
                                      SubSeq(SomeForms, 1, tfields),
                                      SubSeq(SomeUnits, 1, tfields), <<"T">>, fail, ub)
          \/ ColnameLookup(fail = 1, ub)
          \/ ColnameReturn(fail, ub)

Spec == Init /\ [][Next]_vars

(***************************************************************************)
(* Claims on all the operations, checked under Spec.                       *)
(***************************************************************************)
\* C1: when an operation has ended, however it ended, a handle it opened or
\* created has been closed: none is left open.
C1_HandleClosedOnEveryPath ==
    cur.pc = "done" /\ cur.op # "none" /\ cur.outcome # "abort" => handle \in {"none", "closed"}

\* C2: a library call that reports a status other than 0 is the last call of
\* its operation, and the operation raises the error: this holds of every
\* call, those of the column-name loop of Cfits_read_colname included.
C2_EveryStatusCheckedAtOnce ==
    \A i \in 1..Len(cur.calls) :
        cur.calls[i].st # 0 => i = Len(cur.calls) /\ cur.outcome \in {"error", "abort"}

\* C3: Cfits_write_col and Cfits_read_col return normally only for a type
\* code one of their branches handles; for any other the operation ends
\* with the 'unsupported type' error.
C3_UnsupportedTypeIsAnError ==
    /\ cur.op = "write_col" /\ ~WriteColWrites(cur.args.typecode) /\ ~Thrown(cur.calls)
          => cur.outcome = "unsupported"
    /\ cur.op = "read_col" /\ ~Thrown(cur.calls)
       /\ ~ReadColSupported(ReadColType(file, cur.args.colref, cur.args.ext))
          => cur.outcome = "unsupported"

(***************************************************************************)
(* The specification of the header operations on a file with one image.    *)
(***************************************************************************)
HdrKeys == {"OBJECT", "COMMENT"}

\* the values written, each with the type code it is written with
HdrValues ==
    {[typecode |-> TSTRING, value |-> RVector("character", <<<<"a", "b">>>>)],
     [typecode |-> TINT, value |-> RVector("integer", <<7>>)],
     [typecode |-> TLONGLONG, value |-> RVector("integer64", <<7>>)],
     [typecode |-> TDOUBLE, value |-> RVector("numeric", <<2>>)],
     [typecode |-> DefaultTypecode, value |-> RVector("numeric", <<2>>)]}

NextHdr ==
    \/ \E fail \in Fails, ub \in BOOLEAN : Cfits_create_image(32, 1, 1, fail, ub)
    \/ \E ext \in Exts, fail \in Fails, ub \in BOOLEAN :
          \/ \E v \in HdrValues :
                Cfits_update_key(v.value, "OBJECT", "", ext, v.typecode, fail, ub)
          \/ \E keyname \in HdrKeys, typecode \in {TSTRING, TINT, TLONGLONG, TDOUBLE} :
                Cfits_read_key(keyname, typecode, ext, fail, ub)
          \/ \E keyname \in HdrKeys : Cfits_delete_key(keyname, ext, fail, ub)
    \/ \E ext \in Exts, fail \in 0..(MaxFail + 2), ub \in BOOLEAN :
          Cfits_delete_header(ext, fail, ub)

SpecHdr == Init /\ [][NextHdr]_vars

\* the call of the operation record r at position i was made with the status
\* the library gives, no I/O failure being injected into it
Made(r, i, f) ==
    /\ Len(r.calls) >= i
    /\ r.calls[i].f = f
    /\ r.calls[i].st # IoError(f)

\* C8: Cfits_update_key with a type code it writes, followed by
\* Cfits_read_key of the same keyword with the same type code on the same
\* HDU, returns the written value with the written type.
C8_UpdateKeyThenReadKey ==
    [][(/\ cur.op = "update_key"
        /\ cur.outcome = "ok"
        /\ UpdateKeyWrites(cur.args.typecode)
        /\ cur'.op = "read_key"
        /\ cur'.args.keyname = cur.args.keyname
        /\ cur'.args.typecode = cur.args.typecode
        /\ cur'.args.ext = cur.args.ext
        /\ ~Thrown(cur'.calls))
       => /\ cur'.outcome = "ok"
          /\ cur'.result.rtype = cur.args.keyvalue.rtype
          /\ cur'.result.vals = cur.args.keyvalue.vals]_vars

\* the number of cards of keyword k in the header of HDU ext of file f
CardsOf(f, ext, k) ==
    Cardinality({i \in 1..Len(HduAt(f, ext).header) : HduAt(f, ext).header[i].key = k})

\* C9 as stated: after a Cfits_delete_key that succeeded, a Cfits_read_key
\* for that keyword on the same HDU fails with key-not-found.
C9_ReadAfterDeleteFindsNoKey ==
    [][(/\ cur.op = "delete_key"
        /\ cur.outcome = "ok"
        /\ cur'.op = "read_key"
        /\ cur'.args.keyname = cur.args.keyname
        /\ cur'.args.ext = cur.args.ext
        /\ Made(cur', 3, "read_key"))
       => cur'.calls[3].st = KEY_NO_EXIST]_vars

\* C9: Cfits_delete_key on a keyword absent from the header fails with
\* key-not-found and leaves the file unchanged; on a keyword present it
\* removes the first card of that keyword and no other card, so that a
\* following Cfits_read_key for that keyword fails with key-not-found exactly
\* when no card of that keyword is left.
C9_DeleteKeyRemovesFirstCard ==
    [][/\ (cur'.op = "delete_key" /\ Made(cur', 3, "delete_key"))
          => LET hd == HduAt(file, cur'.args.ext).header
                 at == LibFindKey(hd, cur'.args.keyname)
             IN  IF at = 0
                 THEN /\ cur'.calls[3].st = KEY_NO_EXIST
                      /\ cur'.outcome \in {"error", "abort"}
                      /\ file' = file
                 ELSE /\ cur'.calls[3].st = 0
                      /\ hd[at].key = cur'.args.keyname
                      /\ \A i \in 1..(at - 1) : hd[i].key # cur'.args.keyname
                      /\ HduAt(file', cur'.args.ext).header
                            = SubSeq(hd, 1, at - 1) \o SubSeq(hd, at + 1, Len(hd))
       /\ (/\ cur.op = "delete_key"
           /\ cur.outcome = "ok"
           /\ cur'.op = "read_key"
           /\ cur'.args.keyname = cur.args.keyname
           /\ cur'.args.ext = cur.args.ext
           /\ Made(cur', 3, "read_key"))
          => (cur'.calls[3].st = KEY_NO_EXIST
                <=> CardsOf(file, cur.args.ext, cur.args.keyname) = 0)]_vars

\* a read of COMMENT that found a card, in a header that has one COMMENT card
\* left of the two it was created with
C9_Witness ==
    /\ cur.op = "read_key"
    /\ cur.args.keyname = "COMMENT"
    /\ Made(cur, 3, "read_key")
    /\ cur.calls[3].st # KEY_NO_EXIST
    /\ CardsOf(file, cur.args.ext, "COMMENT") = 1

\* the positions in the calls of r of the fits_delete_record calls
Deletions(r) == {i \in 1..Len(r.calls) : r.calls[i].f = "delete_record"}

\* C10: Cfits_delete_header on a header of n cards deletes at position 2
\* only, each time a card that exists, and never card 1: after k deletions
\* the header is card 1 followed by the cards from 2 + k on.  When no
\* deletion fails for I/O, n - 1 deletions are made and the header that is
\* left is the original card 1 alone.
C10_DeleteHeaderKeepsCardOne ==
    [][(cur'.op = "delete_header" /\ Len(cur'.calls) >= 3 /\ cur'.calls[3].st = 0)
       => LET hd == HduAt(file, cur'.args.ext).header
              n == Len(hd)
              done == {i \in Deletions(cur') : cur'.calls[i].st = 0}
              k == Cardinality(done)
          IN  /\ n >= 1
              /\ \A i \in Deletions(cur') : cur'.calls[i].st \in {0, WRITE_ERROR}
              /\ k <= n - 1
              /\ HduAt(file', cur'.args.ext).header = <<hd[1]>> \o SubSeq(hd, 2 + k, n)
              /\ done = Deletions(cur')
                    => /\ k = n - 1
                       /\ HduAt(file', cur'.args.ext).header = <<hd[1]>>
                       /\ cur'.calls[Len(cur'.calls)].f = "close_file"]_vars

\* a Cfits_delete_header that made all its deletions, more than one
C10_Witness ==
    /\ cur.op = "delete_header"
    /\ Cardinality(Deletions(cur)) >= 2
    /\ \A i \in Deletions(cur) : cur.calls[i].st = 0
    /\ Len(HduAt(file, cur.args.ext).header) = 1
    /\ HduAt(file, cur.args.ext).header[1].key = "SIMPLE"

(***************************************************************************)
(* The specification of the column operations on a table of one column,    *)
(* which is of 32-bit integers, 64-bit integers or doubles.                *)
(***************************************************************************)
ColLetters == {"J", "K", "D"}

\* the vectors written, each with the type code it is written with: a vector
\* of MaxRows values and its first value alone
ColData ==
    LET ints == [i \in 1..MaxRows |-> 6 + i]
        wide == [i \in 1..MaxRows |-> IF i = 1 THEN HugePos ELSE i]
        reals == [i \in 1..MaxRows |-> IF i = 1 THEN NaN ELSE 2 * i]
    IN  {[typecode |-> TINT, data |-> RVector("integer", v)] :
            v \in {ints, SubSeq(ints, 1, 1)}}
        \cup {[typecode |-> TLONGLONG, data |-> RVector("integer64", wide)],
              [typecode |-> TDOUBLE, data |-> RVector("numeric", reals)],
              [typecode |-> DefaultTypecode, data |-> RVector("numeric", reals)]}

\* a NaN is written to a column of doubles only
Writable(f, d, colref, ext) ==
    \A i \in 1..Len(d.data.vals) :
        d.data.vals[i] = NaN
            => /\ colref \in 1..Len(HduAt(f, ext).cols)
               /\ TformLetter(HduAt(f, ext).cols[colref].tform) = "D"

NextCol ==
    \/ \E c \in ColLetters, fail \in Fails, ub \in BOOLEAN :
          Cfits_create_bintable(1, <<<<"a">>>>, <<<<"1", c>>>>, <<<<>>>>, <<"T">>, fail, ub)
    \/ \E colref \in 1..MaxCols, ext \in Exts, fail \in Fails, ub \in BOOLEAN :
          \/ Cfits_read_col(colref, ext, fail, ub)
          \/ \E d \in ColData :
                /\ Writable(file, d, colref, ext)
                /\ Cfits_write_col(d.data, Len(d.data.vals), colref, ext, d.typecode, fail, ub)

SpecCol == Init /\ [][NextCol]_vars

\* the type letter of the column the operation record r names, in file f
LetterOf(f, r) ==
    IF r.args.colref \in 1..Len(HduAt(f, r.args.ext).cols)
    THEN TformLetter(HduAt(f, r.args.ext).cols[r.args.colref].tform)
    ELSE "?"

\* a Cfits_write_col of a numeric type code that returned, followed by a
\* Cfits_read_col of the same column in which no library call failed
WriteThenReadCol ==
    /\ cur.op = "write_col"
    /\ cur.outcome = "ok"
    /\ cur.args.typecode \in {TINT, TLONGLONG, TDOUBLE}
    /\ cur.args.nrow >= 1
    /\ cur'.op = "read_col"
    /\ cur'.args.colref = cur.args.colref
    /\ cur'.args.ext = cur.args.ext
    /\ ~Thrown(cur'.calls)

Hosts == {Host, [Host EXCEPT !.long = 4]}

InitImg ==
    /\ file = NoFile
    /\ cur = NoOp
    /\ handle = "none"
    /\ abi \in Hosts

\* the vector of n values written with a datatype: INTEGER for the integer
\* types, REAL (the doubles 2.0, 32.0, 512.0 in turn) for the others
ImgData(datatype, n) ==
    IF datatype \in {TBYTE, TSHORT, TINT, TLONG}
    THEN RVector("integer", [i \in 1..n |-> i])
    ELSE RVector("numeric", [i \in 1..n |-> CASE i % 3 = 1 -> 2 [] i % 3 = 2 -> 32
                                              [] OTHER -> 512])

WriteTypes == {TBYTE, TSHORT, TINT, TLONG, TFLOAT, TDOUBLE}

ReadTypes == {TFLOAT, TDOUBLE, TBYTE, TSHORT, TLONG, TINT}

Axes == 1..MaxAxis

\* the axes of HDU ext, or 1 and 1 when it is no image of two axes
AxisOf(f, ext, i) == IF Len(HduAt(f, ext).naxes) = 2 THEN HduAt(f, ext).naxes[i] ELSE 1

\* a failure of no call, or of the opening of the file
ImgFails == 0..1

NextImg ==
    \/ \E naxis1 \in Axes, naxis2 \in Axes, fail \in ImgFails, ub \in BOOLEAN :
          Cfits_create_image(0 - 64, naxis1, naxis2, fail, ub)
    \/ \E ext \in {1}, fail \in ImgFails, ub \in BOOLEAN :
          \/ \E datatype \in WriteTypes :
                Cfits_write_image(ImgData(datatype, AxisOf(file, ext, 1) * AxisOf(file, ext, 2)), datatype,
                                  AxisOf(file, ext, 1), AxisOf(file, ext, 2), ext, 0, fail, ub)
          \/ \E datatype \in ReadTypes :
                Cfits_read_img(AxisOf(file, ext, 1), AxisOf(file, ext, 2), ext, datatype,
                               fail, ub)
    \/ \E f0 \in Axes, f1 \in Axes, l0 \in Axes, l1 \in Axes, inc \in 0..1,
          fail \in ImgFails, ub \in BOOLEAN :
          Cfits_read_img_subset(<<f0, f1>>, <<l0, l1>>, 1, TDOUBLE, inc, fail, ub)

SpecImg == InitImg /\ [][NextImg]_vars

\* a Cfits_write_image of a whole buffer that returned, followed by a
\* Cfits_read_img with the same datatype, axes and HDU in which no library
\* call failed
WriteThenReadImg ==
    /\ cur.op = "write_image"
    /\ cur.outcome = "ok"
    /\ cur.args.datatype \in WriteTypes
    /\ Len(cur.args.data.vals) = cur.args.naxis1 * cur.args.naxis2
    /\ cur'.op = "read_img"
    /\ cur'.args.datatype = cur.args.datatype
    /\ cur'.args.naxis1 = cur.args.naxis1
    /\ cur'.args.naxis2 = cur.args.naxis2
    /\ cur'.args.ext = cur.args.ext
    /\ ~Thrown(cur'.calls)

\* C5: for the byte, short, int, long, float and double type codes,
\* Cfits_write_image followed by Cfits_read_img with the same datatype and
\* axis sizes returns a matrix of those axes whose elements are the elements
\* of the written buffer, in order; the type written is accepted on read.
C5_ImageRoundTrip ==
    [][WriteThenReadImg
       => /\ cur'.outcome = "ok"
          /\ cur'.result.dim = <<cur.args.naxis1, cur.args.naxis2>>
          /\ cur'.result.vals = cur.args.data.vals]_vars

\* a Cfits_read_img_subset that returned a matrix, its corners being the
\* first and the last pixel of the image of its HDU
FullSubset ==
    /\ cur.op = "read_img_subset"
    /\ cur.outcome = "ok"
    /\ Len(HduAt(file, cur.args.ext).naxes) = 2
    /\ cur.args.fpixel = <<1, 1>>
    /\ cur.args.lpixel = <<HduAt(file, cur.args.ext).naxes[1],
                           HduAt(file, cur.args.ext).naxes[2]>>

\* C6: Cfits_read_img_subset from pixel (1,1) to pixel (axis1, axis2) of an
\* axis1 x axis2 image returns the matrix, dimensions and elements, that
\* Cfits_read_img(axis1, axis2) returns on the same file and HDU.
C6_FullSubsetIsReadImg ==
    FullSubset
    => cur.result = ReadImgResult(abi, file, cur.args.lpixel[1], cur.args.lpixel[2],
                                  cur.args.ext, cur.args.datatype)

\* C7: for corners with f0 <= l0 and f1 <= l1 the matrix that
\* Cfits_read_img_subset returns has l0 - f0 + 1 rows and l1 - f1 + 1
\* columns.
C7_SubsetDimsAreTheRegion ==
    (/\ cur.op = "read_img_subset"
     /\ cur.outcome = "ok"
     /\ cur.args.fpixel[1] <= cur.args.lpixel[1]
     /\ cur.args.fpixel[2] <= cur.args.lpixel[2])
    => cur.result.dim = <<cur.args.lpixel[1] - cur.args.fpixel[1] + 1,
                          cur.args.lpixel[2] - cur.args.fpixel[2] + 1>>

(***************************************************************************)
(* Claims on the column-name loop and on the order of the library calls,   *)
(* checked under Spec.                                                     *)
(***************************************************************************)
\* the names of the columns of HDU ext, in index order
ColumnNames(f, ext) == [i \in 1..Len(HduAt(f, ext).cols) |-> HduAt(f, ext).cols[i].name]

\* a Cfits_read_colname on a table with a column that has ended, none of
\* its library calls having met an I/O failure
ColnameEnded ==
    /\ cur.op = "read_colname"
    /\ cur.pc = "done"
    /\ cur.outcome \in {"ok", "rerror"}
    /\ Len(HduAt(file, cur.args.ext).cols) >= 1
    /\ \A i \in 1..Len(cur.calls) : cur.calls[i].st # READ_ERROR

\* C11: on a table of ncol >= 1 columns, one column included,
\* Cfits_read_colname returns ncol strings, the i-th the name of column i.
C11_ColnameListsEveryColumn ==
    ColnameEnded
    => /\ cur.outcome = "ok"
       /\ cur.result.vals = ColumnNames(file, cur.args.ext)

\* C14: every store out[ii] in the loop of Cfits_read_colname has ii < ncol,
\* whatever the statuses the lookups hand back.
C14_ColnameStoresInBounds ==
    cur.op = "read_colname" /\ cur.outcome \in {"running", "rerror"}
    => ~cur.loop.overrun

\* the operations that take the number of an HDU
TakesExt(o) == o \notin {"none", "create_image", "create_bintable"}

\* an operation that has ended and not by a fault of the process, no library
\* call of it having reported an error and its type code having a branch
EndedClean ==
    /\ cur.op # "none"
    /\ cur.pc = "done"
    /\ cur.outcome \notin {"unsupported", "abort"}
    /\ \A i \in 1..Len(cur.calls) : cur.calls[i].st = 0

\* C13: when no library call reports an error and the type code is
\* supported, the calls are an open or create, the move to the HDU for the
\* operations that take ext, the data and header calls and one close, which
\* is the last call; no handle is open when the operation returns.
C13_OpenSeekDataClose ==
    EndedClean
    => /\ Len(cur.calls) >= 2
       /\ cur.calls[1].f \in {"open_file", "open_image", "create_file"}
       /\ TakesExt(cur.op) => cur.calls[2].f = "movabs_hdu"
       /\ cur.calls[Len(cur.calls)].f = "close_file"
       /\ \A i \in 1..(Len(cur.calls) - 1) : cur.calls[i].f # "close_file"
       /\ handle = "closed"

(***************************************************************************)
(* Claims on the reading of images, checked under SpecImg.                 *)
(***************************************************************************)
\* C12: a Cfits_read_img that returns gives a matrix of naxis1 rows and
\* naxis2 columns whose k-th element, in column-major order, is the value of
\* the k-th pixel stored in the HDU: each sample lands in one element.
C12_ReadImgGivesThePixels ==
    cur.op = "read_img" /\ cur.outcome = "ok"
    => /\ cur.result.dim = <<cur.args.naxis1, cur.args.naxis2>>
       /\ Len(cur.result.vals) = cur.args.naxis1 * cur.args.naxis2
       /\ \A k \in 1..Len(cur.result.vals) :
             cur.result.vals[k] = HduAt(file, cur.args.ext).pixels[k]

\* C15: for corners with 1 <= f0 <= l0 and 1 <= f1 <= l1 the size npixels
\* of the vector of Cfits_read_img_subset is not negative and is at least
\* (l0 - f0 + 1) * (l1 - f1 + 1), the number of pixels of the region, so
\* that the library stores nothing past the end of the vector; this of every
\* run that opens the file and moves to the HDU, and so makes the vector.
C15_SubsetBufferHoldsTheRegion ==
    (/\ cur.op = "read_img_subset"
     /\ Len(cur.calls) >= 2 /\ cur.calls[2].st = 0
     /\ 1 <= cur.args.fpixel[1] /\ cur.args.fpixel[1] <= cur.args.lpixel[1]
     /\ 1 <= cur.args.fpixel[2] /\ cur.args.fpixel[2] <= cur.args.lpixel[2])
    => /\ SubsetNpixels(cur.args.fpixel, cur.args.lpixel) >= 0
       /\ SubsetNpixels(cur.args.fpixel, cur.args.lpixel)
          >= (cur.args.lpixel[1] - cur.args.fpixel[1] + 1)
             * (cur.args.lpixel[2] - cur.args.fpixel[2] + 1)
       /\ cur.outcome = "ok"
          => ~SubsetOverrun(abi, file, cur.args.fpixel, cur.args.lpixel, cur.args.ext,
                            cur.args.datatype, cur.args.inc)

(***************************************************************************)
(* The specification of the operations that read, on a file that the       *)
(* create operations make and that its owner may protect against writing.  *)
(***************************************************************************)
\* the file system: the file loses its write permission
MakeReadOnly ==
    /\ Idle
    /\ file.exists
    /\ file.writable
    /\ file' = [file EXCEPT !.writable = FALSE]
    /\ UNCHANGED <<cur, handle, abi>>

NextFrame ==
    \/ MakeReadOnly
    \/ \E ub \in BOOLEAN :
          \/ Cfits_create_image(32, 1, 2, 0, ub)
          \/ \E tfields \in 1..MaxCols :
                Cfits_create_bintable(tfields, SubSeq(SomeNames, 1, tfields),
                                      SubSeq(SomeForms, 1, tfields),
                                      SubSeq(SomeUnits, 1, tfields), <<"T">>, 0, ub)
          \/ ColnameLookup(FALSE, ub)
          \/ ColnameReturn(0, ub)
    \/ \E ext \in Exts, ub \in BOOLEAN :
          \/ Cfits_read_col(1, ext, 0, ub)
          \/ Cfits_read_nrow(ext, 0, ub)
          \/ Cfits_read_ncol(ext, 0, ub)
          \/ Cfits_read_colname(1, ext, 0, ub)
          \/ \E typecode \in {TSTRING, TDOUBLE} :
                Cfits_read_key("NAXIS", typecode, ext, 0, ub)
          \/ \E datatype \in {TDOUBLE, TBYTE} :
                Cfits_read_img(1, 2, ext, datatype, 0, ub)
          \/ Cfits_read_header(ext, 0, ub)
          \/ \E inc \in 0..1 :
                Cfits_read_img_subset(<<1, 1>>, <<1, 2>>, ext, TDOUBLE, inc, 0, ub)
          \/ Cfits_update_key(RVector("integer", <<7>>), "OBJECT", "", ext, TINT, 0, ub)
          \/ Cfits_delete_key("OBJECT", ext, 0, ub)
          \/ Cfits_write_col(SomeInts, 2, 1, ext, TINT, 0, ub)

SpecFrame == Init /\ [][NextFrame]_vars

\* the operations that only read
ReadOps == {"read_col", "read_nrow", "read_ncol", "read_colname", "read_key", "read_img",
            "read_header", "read_img_subset"}

\* the status of the opening call of operation o on file f in mode READONLY
OpenedReadOnly(f, o) ==
    IF o \in {"read_img", "read_header", "read_img_subset"}
    THEN LibOpenImage(f, READONLY)
    ELSE LibOpenFile(f, READONLY)

\* C16: an operation that only reads opens the file in mode READONLY: on a
\* file that cannot be opened for writing and can be opened for reading its
\* opening call succeeds, and the operation leaves the file as it was.
C16_ReadersOpenReadOnly ==
    [][(/\ cur'.op \in ReadOps
        /\ cur' # cur
        /\ ~file.writable
        /\ OpenedReadOnly(file, cur'.op) = 0)
       => /\ cur'.calls[1].st = 0
          /\ file' = file]_vars

====
